---- MODULE Spec2Model ----
(***************************************************************************)
(* A model of pusher/pusher_client.py: the PusherClient request builders   *)
(* (trigger, trigger_batch, channels_info, channel_info, users_info), the  *)
(* channel auth token generator (authenticate) and the webhook verifier    *)
(* (validate_webhook).                                                     *)
(*                                                                         *)
(* Python values are records.  A text carries its number of characters     *)
(* (what len() measures) and its number of bytes once encoded; its `body`  *)
(* is a sequence of pieces, so that formatting and JSON encoding build a   *)
(* new, different text.  A value that is not a text carries the length of  *)
(* its JSON text (`jlen`) and what its truth value rests on (`n`).         *)
(***************************************************************************)
EXTENDS Integers, Sequences, FiniteSets, TLC

VARIABLES
    app_id,     \* credentials of the client (Client.__init__)
    key,
    secret,
    batch,      \* the list of events the caller holds and hands to trigger_batch
    orig,       \* that list as the caller built it
    call,       \* the last call: the operation and its arguments as passed
    result      \* what the last call returned, or the error it raised

vars == <<app_id, key, secret, batch, orig, call, result>>

-----------------------------------------------------------------------------
(* Bounds of the model *)

MaxListLen == 11        \* longest channel list a caller passes
MaxBatch == 2           \* most events in a batch
Epoch == 1000000        \* the time_ms the webhook bodies are built around

(* Constants of the program *)

TriggerMaxChannels == 10
EventNameMax == 200
DataMax == 10240
FreshnessWindow == 300000
ChannelNameMax == 200

-----------------------------------------------------------------------------
(* Python values *)

None == [t |-> "none", body |-> <<>>, chars |-> 0, bytes |-> 0, n |-> 0, jlen |-> 4]

Text(body, chars, bytes) ==
    [t |-> "str", body |-> body, chars |-> chars, bytes |-> bytes,
     n |-> chars, jlen |-> chars + 2]

Obj(t, body, n, jlen) ==
    [t |-> t, body |-> body, chars |-> 0, bytes |-> 0, n |-> n, jlen |-> jlen]

\* Python's truth value: None, "", {}, [] and 0 are false.
Truthy(v) == v.t # "none" /\ v.n # 0

\* "%s:%s" % (a, b), a and b sequences of pieces
Format2(a, b) == a \o <<":">> \o b

Abs(x) == IF x < 0 THEN -x ELSE x

-----------------------------------------------------------------------------
(* Collaborators: pusher.util, pusher.signature, pusher.http, json *)

Ok(v) == [ok |-> TRUE, val |-> v]
Err(type, msg) == [ok |-> FALSE, err |-> type, msg |-> msg]

\* ensure_text(obj, name): a text is returned as it is
ensure_text(obj, name) == obj

\* json.dumps(v): the JSON text of v, ASCII (ensure_ascii is the default)
json_dumps(v) == Text(<<"json", v.t>> \o v.body, v.jlen, v.jlen)

\* validate_channel(name): at most 200 characters of the channel alphabet
validate_channel(c) ==
    IF c.chars > ChannelNameMax \/ ~c.alphabet
    THEN Err("ValueError", "Invalid channel")
    ELSE Ok(c)

\* channel_name_re.match(channel)
channel_name_re_match(c) == c.alphabet

\* validate_socket_id(id): the numeric-pair shape
validate_socket_id(sid) ==
    IF sid.t = "str" /\ sid.shape
    THEN Ok(sid)
    ELSE Err("ValueError", "Invalid socket ID")

\* join_attributes(attributes): comma-separated, in the caller's order
RECURSIVE join_attributes(_)
join_attributes(attrs) ==
    IF Len(attrs) = 0 THEN <<>>
    ELSE IF Len(attrs) = 1 THEN <<attrs[1]>>
    ELSE <<attrs[1], ",">> \o join_attributes(Tail(attrs))

\* sign(secret, message): HMAC-SHA256 of message under secret, hex
sign(s, message) == <<"hmac-sha256", s>> \o message

\* verify(secret, message, signature)
verify(s, message, signature) == signature = sign(s, message)

\* Request(client, method, path, params)
Request(method, path, params) ==
    [kind |-> "request", method |-> method, path |-> path, params |-> params]

\* an exception leaving the operation
Raise(type, msg) == [kind |-> "error", err |-> type, msg |-> msg]

-----------------------------------------------------------------------------
(* PusherClient *)

\* _data_to_string with the test for a text dropped: everything is JSON-encoded
data_to_string_always_dumps(data) == json_dumps(data)

\* _data_to_string(data)
data_to_string(data) ==
    IF data.t = "str"
    THEN ensure_text(data, "data")
    ELSE json_dumps(data)

\* the test of line 46 with >= for >
too_many_channels_ge(chs) == Len(chs.items) >= TriggerMaxChannels

\* if len(channels) > 10
too_many_channels(chs) == Len(chs.items) > TriggerMaxChannels

\* trigger(channels, event_name, data, socket_id=None)
trigger(channels, event_name, data, socket_id) ==
    LET chs == IF channels.kind = "str"
               THEN [kind |-> "list", items |-> <<channels.items[1]>>]
               ELSE channels
    IN
    IF chs.kind = "dict" \/ chs.kind \notin {"list", "tuple"}
    THEN Raise("TypeError", "Expected a single or a list of channels")
    ELSE IF too_many_channels(chs)
    THEN Raise("ValueError", "Too many channels")
    ELSE IF \E i \in 1..Len(chs.items) : ~validate_channel(chs.items[i]).ok
    THEN Raise("ValueError", "Invalid channel")
    ELSE
    LET validated == [i \in 1..Len(chs.items) |-> validate_channel(chs.items[i]).val]
        name == ensure_text(event_name, "event_name")
    IN
    IF name.chars > EventNameMax
    THEN Raise("ValueError", "event_name too long")
    ELSE
    LET d == data_to_string(data) IN
    IF d.chars > DataMax
    THEN Raise("ValueError", "Too much data")
    ELSE
    LET params == [name |-> name, channels |-> validated, data |-> d]
        path == <<"/apps/", app_id, "/events">>
    IN
    IF Truthy(socket_id)
    THEN IF validate_socket_id(socket_id).ok
         THEN Request("POST", path,
                      [name |-> name, channels |-> validated, data |-> d,
                       socket_id |-> validate_socket_id(socket_id).val])
         ELSE Raise("ValueError", "Invalid socket ID")
    ELSE Request("POST", path, params)

\* the loop of trigger_batch: event['data'] = self._data_to_string(event['data'])
encode_batch(b) ==
    [i \in 1..Len(b) |-> [b[i] EXCEPT !.data = data_to_string(b[i].data)]]

\* the list trigger_batch leaves in the caller's hands
batch_after(b, already_encoded) ==
    IF ~already_encoded THEN encode_batch(b) ELSE b

\* trigger_batch(batch=[], already_encoded=False)
trigger_batch(b, already_encoded) ==
    Request("POST", <<"/apps/", app_id, "/batch_events">>,
            [batch |-> batch_after(b, already_encoded)])

\* channels_info(prefix_filter=None, attributes=[])
channels_info(prefix_filter, attributes) ==
    LET path == <<"/apps/", app_id, "/channels">>
        info == join_attributes(attributes)
        filter == ensure_text(prefix_filter, "prefix_filter")
    IN
    IF Len(attributes) > 0 /\ Truthy(prefix_filter)
    THEN Request("GET", path, [info |-> info, filter_by_prefix |-> filter])
    ELSE IF Len(attributes) > 0
    THEN Request("GET", path, [info |-> info])
    ELSE IF Truthy(prefix_filter)
    THEN Request("GET", path, [filter_by_prefix |-> filter])
    ELSE Request("GET", path, <<>>)

\* channel_info(channel, attributes=[])
channel_info(channel, attributes) ==
    LET path == <<"/apps/", app_id, "/channels/", channel.name>> IN
    IF ~validate_channel(channel).ok
    THEN Raise("ValueError", "Invalid channel")
    ELSE IF Len(attributes) > 0
    THEN Request("GET", path, [info |-> join_attributes(attributes)])
    ELSE Request("GET", path, <<>>)

\* users_info(channel)
users_info(channel) ==
    IF ~validate_channel(channel).ok
    THEN Raise("ValueError", "Invalid channel")
    ELSE Request("GET", <<"/apps/", app_id, "/channels/", channel.name, "/users">>, <<>>)

\* authenticate(channel, socket_id, custom_data=None)
authenticate(channel, socket_id, custom_data) ==
    IF ~validate_channel(channel).ok
    THEN Raise("ValueError", "Invalid channel")
    ELSE
    LET ch == validate_channel(channel).val IN
    IF ~channel_name_re_match(ch)
    THEN Raise("ValueError", "Channel should be a valid channel")
    ELSE IF ~validate_socket_id(socket_id).ok
    THEN Raise("ValueError", "Invalid socket ID")
    ELSE
    LET sid == validate_socket_id(socket_id).val
        present == Truthy(custom_data)
        dumped == json_dumps(custom_data)
        string_to_sign ==
            IF present
            THEN Format2(Format2(<<sid.s>>, <<ch.name>>), dumped.body)
            ELSE Format2(<<sid.s>>, <<ch.name>>)
        signature == sign(secret, string_to_sign)
        auth == Format2(<<key>>, signature)
    IN
    IF present
    THEN [kind |-> "token", value |-> [auth |-> auth, channel_data |-> dumped]]
    ELSE [kind |-> "token", value |-> [auth |-> auth]]

\* json.loads(body): the parsed value, or ValueError
json_loads(body) ==
    IF body.json = "invalid" THEN Err("ValueError", "No JSON object could be decoded")
    ELSE Ok(body)

\* validate_webhook(key, signature, body); now is time.time()*1000
validate_webhook(k, signature, body, now) ==
    IF ensure_text(k, "key") # key
    THEN [kind |-> "null"]
    ELSE IF ~verify(secret, ensure_text(body, "body").text, ensure_text(signature, "signature"))
    THEN [kind |-> "null"]
    ELSE IF ~json_loads(body).ok
    THEN [kind |-> "null"]
    ELSE
    LET body_data == json_loads(body).val IN
    IF body_data.json # "object"
    THEN Raise("AttributeError", "object has no attribute 'get'")
    ELSE
    LET time_ms == body_data.time_ms IN
    IF ~Truthy(time_ms)
    THEN [kind |-> "null"]
    ELSE IF time_ms.t # "int"
    THEN Raise("TypeError", "unsupported operand type(s) for -")
    ELSE IF Abs(now - time_ms.n) > FreshnessWindow
    THEN [kind |-> "null"]
    ELSE [kind |-> "payload", value |-> body_data]

-----------------------------------------------------------------------------
(* The inputs the callers pass *)

Chan(name, chars, alphabet) == [name |-> name, chars |-> chars, alphabet |-> alphabet]

GoodChannel == Chan("private-foo", 11, TRUE)
LongestChannel == Chan("presence-longest", ChannelNameMax, TRUE)
TooLongChannel == Chan("private-too-long", ChannelNameMax + 1, TRUE)
BadChannel == Chan("private foo!", 12, FALSE)

Channels == {LongestChannel, TooLongChannel, BadChannel}

\* a list of n channels, all valid but the one at position bad (0: none)
ChannelList(n, bad) ==
    [kind |-> "list",
     items |-> [i \in 1..n |-> IF i = bad THEN BadChannel
                               ELSE IF i = 1 THEN LongestChannel ELSE GoodChannel]]

ListLengths == {0, 1} \cup (TriggerMaxChannels..MaxListLen)

ChannelArgs ==
    {ChannelList(n, 0) : n \in ListLengths}
    \cup {ChannelList(1, 1), ChannelList(TriggerMaxChannels, TriggerMaxChannels),
          ChannelList(MaxListLen, 1)}
    \cup {[kind |-> "str", items |-> <<c>>] : c \in {GoodChannel, TooLongChannel}}
    \cup {[kind |-> "dict", items |-> <<GoodChannel>>],
          [kind |-> "int", items |-> <<>>]}

EventNames ==
    {Text(<<"longest-event">>, EventNameMax, EventNameMax),
     Text(<<"too-long-event">>, EventNameMax + 1, EventNameMax + 1)}

SmallText == Text(<<"hello">>, 5, 5)
SmallDict == Obj("dict", <<"{message: hello}">>, 1, 20)

DataArgs ==
    {SmallDict,
     Text(<<"ascii-max">>, DataMax, DataMax),
     Text(<<"ascii-over">>, DataMax + 1, DataMax + 1),
     Text(<<"two-byte-characters">>, DataMax, 2 * DataMax),
     Obj("dict", <<"{big: max}">>, 1, DataMax),
     Obj("dict", <<"{big: over}">>, 1, DataMax + 1)}

SocketId(t, s, shape) == [t |-> t, s |-> s, shape |-> shape, n |-> IF s = "" THEN 0 ELSE 1]

NoSocketId == SocketId("none", "", FALSE)
EmptySocketId == SocketId("str", "", FALSE)
GoodSocketId == SocketId("str", "123.456", TRUE)
BadSocketId == SocketId("str", "123:456", FALSE)

SocketIds == {EmptySocketId, GoodSocketId, BadSocketId}

CustomData ==
    {None,
     Obj("dict", <<"{}">>, 0, 2),
     Obj("list", <<"[]">>, 0, 2),
     Obj("int", <<"0">>, 0, 1),
     Text(<<>>, 0, 0),
     Obj("dict", <<"{user_id: u}">>, 1, 15),
     Text(<<"u">>, 1, 1)}

AttributeLists == {<<>>, <<"user_count">>, <<"user_count", "subscription_count">>}

PrefixFilters == {None, Text(<<>>, 0, 0), Text(<<"presence-">>, 9, 9)}

BatchData == {SmallText, SmallDict}

Event(data) == [channel |-> GoodChannel, name |-> "my-event", data |-> data]

Batches ==
    UNION {[1..n -> {Event(d) : d \in BatchData}] : n \in 0..MaxBatch}

\* a webhook body: its text, what json.loads makes of it, its time_ms
Body(text, json, time_ms) == [text |-> <<text>>, json |-> json, time_ms |-> time_ms]

Number(n) == Obj("int", <<"int">>, n, 1)

TimeValues ==
    {Epoch, Epoch - FreshnessWindow, Epoch - FreshnessWindow - 1,
     Epoch + FreshnessWindow, Epoch + FreshnessWindow + 1,
     Epoch - FreshnessWindow - 1000}

Bodies ==
    {Body("{time_ms: ms, events: []}", "object", Number(ms)) : ms \in TimeValues}
    \cup {Body("{time_ms: 0, events: []}", "object", Number(0)),
          Body("{events: []}", "object", None),
          Body("{time_ms: 'soon'}", "object", Text(<<"soon">>, 4, 4)),
          Body("[1, 2]", "array", None),
          Body("{time_ms: ", "invalid", None)}

Keys == {"key", "other-key"}

Signatures(body) ==
    {sign("secret", body.text), sign("other-secret", body.text),
     sign("secret", <<"another body">>)}

Nows == {Epoch}

-----------------------------------------------------------------------------
(* The state machine: one action per operation of the client *)

Init ==
    /\ app_id = "4"
    /\ key = "key"
    /\ secret = "secret"
    /\ batch = <<>>
    /\ orig = <<>>
    /\ call = [op |-> "none"]
    /\ result = [kind |-> "idle"]

\* the caller builds a list of events
MakeBatch ==
    \E b \in Batches :
        /\ batch' = b
        /\ orig' = b
        /\ call' = [op |-> "make_batch"]
        /\ result' = [kind |-> "idle"]
        /\ UNCHANGED <<app_id, key, secret>>

Trigger ==
    \E channels \in ChannelArgs, event_name \in EventNames, data \in DataArgs,
       socket_id \in SocketIds \cup {NoSocketId} :
        /\ call' = [op |-> "trigger", channels |-> channels, event_name |-> event_name,
                    data |-> data, socket_id |-> socket_id]
        /\ result' = trigger(channels, event_name, data, socket_id)
        /\ UNCHANGED <<app_id, key, secret, batch, orig>>

TriggerBatch ==
    \E already_encoded \in BOOLEAN :
        /\ call' = [op |-> "trigger_batch", batch |-> batch,
                    already_encoded |-> already_encoded]
        /\ result' = trigger_batch(batch, already_encoded)
        /\ batch' = batch_after(batch, already_encoded)
        /\ UNCHANGED <<app_id, key, secret, orig>>

ChannelsInfo ==
    \E prefix_filter \in PrefixFilters, attributes \in AttributeLists :
        /\ call' = [op |-> "channels_info", prefix_filter |-> prefix_filter,
                    attributes |-> attributes]
        /\ result' = channels_info(prefix_filter, attributes)
        /\ UNCHANGED <<app_id, key, secret, batch, orig>>

ChannelInfo ==
    \E channel \in Channels, attributes \in AttributeLists :
        /\ call' = [op |-> "channel_info", channel |-> channel,
                    attributes |-> attributes]
        /\ result' = channel_info(channel, attributes)
        /\ UNCHANGED <<app_id, key, secret, batch, orig>>

UsersInfo ==
    \E channel \in Channels :
        /\ call' = [op |-> "users_info", channel |-> channel]
        /\ result' = users_info(channel)
        /\ UNCHANGED <<app_id, key, secret, batch, orig>>

Authenticate ==
    \E channel \in Channels, socket_id \in SocketIds, custom_data \in CustomData :
        /\ call' = [op |-> "authenticate", channel |-> channel,
                    socket_id |-> socket_id, custom_data |-> custom_data]
        /\ result' = authenticate(channel, socket_id, custom_data)
        /\ UNCHANGED <<app_id, key, secret, batch, orig>>

ValidateWebhook ==
    \E k \in Keys, body \in Bodies, now \in Nows :
        \E signature \in Signatures(body) :
            /\ call' = [op |-> "validate_webhook", key |-> k, signature |-> signature,
                        body |-> body, now |-> now]
            /\ result' = validate_webhook(k, signature, body, now)
            /\ UNCHANGED <<app_id, key, secret, batch, orig>>

Next ==
    \/ MakeBatch
    \/ Trigger
    \/ TriggerBatch
    \/ ChannelsInfo
    \/ ChannelInfo
    \/ UsersInfo
    \/ Authenticate
    \/ ValidateWebhook

Spec == Init /\ [][Next]_vars

-----------------------------------------------------------------------------
(* What the claims speak of, stated apart from the code *)

ValidChannel(c) == c.chars <= ChannelNameMax /\ c.alphabet
ValidSocketId(sid) == sid.t = "str" /\ sid.shape
Supplied(v) == v.t # "none"

\* the text a value serializes to, serialized once
SerializedOnce(d) == IF d.t = "str" THEN d ELSE json_dumps(d)
SerializedBytes(d) == SerializedOnce(d).bytes

TooManyChannelsError == Raise("ValueError", "Too many channels")

\* the conditions under which a webhook is to be accepted
WebhookAccepted(c) ==
    /\ c.key = key
    /\ verify(secret, c.body.text, c.signature)
    /\ c.body.json = "object"
    /\ c.body.time_ms.t = "int"
    /\ c.body.time_ms.n # 0
    /\ Abs(c.now - c.body.time_ms.n) <= FreshnessWindow

\* the string authenticate is to sign
ExpectedStringToSign(c) ==
    IF Supplied(c.custom_data)
    THEN Format2(Format2(<<c.socket_id.s>>, <<c.channel.name>>), json_dumps(c.custom_data).body)
    ELSE Format2(<<c.socket_id.s>>, <<c.channel.name>>)

-----------------------------------------------------------------------------
(* The claims *)

\* C1: validate_webhook returns the parsed payload if and only if the key is
\* the client's, the signature verifies over the body, the body parses as
\* JSON, the payload has a non-zero time_ms and |now - time_ms| <= 300000; in
\* every other case it returns null.
C1_WebhookPayloadIffElseNull ==
    call.op = "validate_webhook" =>
        IF WebhookAccepted(call)
        THEN result = [kind |-> "payload", value |-> call.body]
        ELSE result = [kind |-> "null"]

\* C1, the part the code keeps: the payload is returned exactly when the
\* conditions hold, a difference of 300000 ms included and 300001 ms excluded.
C1_PayloadExactlyWhenAccepted ==
    call.op = "validate_webhook" =>
        /\ result.kind = "payload" <=> WebhookAccepted(call)
        /\ result.kind = "payload" => result.value = call.body

\* C2: validate_webhook is total: whatever the key, signature and body, it
\* returns (null or the payload) and never raises.
C2_WebhookNeverRaises ==
    call.op = "validate_webhook" => result.kind \in {"null", "payload"}

\* C3: for a valid channel and socket id, authenticate returns
\* auth = key:sign(secret, socket_id:channel) when no custom data is given and
\* key:sign(secret, socket_id:channel:serialized custom data) when it is.
C3_AuthSignsCanonicalString ==
    (call.op = "authenticate" /\ ValidChannel(call.channel) /\ ValidSocketId(call.socket_id)) =>
        /\ result.kind = "token"
        /\ result.value.auth = Format2(<<key>>, sign(secret, ExpectedStringToSign(call)))

\* C3, the part the code keeps: the canonical string is signed whenever the
\* custom data is absent or has a true truth value.
C3_AuthSignsCanonicalStringUnlessFalsy ==
    (/\ call.op = "authenticate" /\ ValidChannel(call.channel) /\ ValidSocketId(call.socket_id)
     /\ (Supplied(call.custom_data) => Truthy(call.custom_data))) =>
        /\ result.kind = "token"
        /\ result.value.auth = Format2(<<key>>, sign(secret, ExpectedStringToSign(call)))

\* C4: whenever custom_data is supplied (anything but the absent default, an
\* empty object, an empty list, 0 and "" included) the token carries
\* channel_data, its JSON serialization; it carries none only when custom_data
\* was not supplied.
C4_ChannelDataWheneverSupplied ==
    (call.op = "authenticate" /\ result.kind = "token") =>
        /\ "channel_data" \in DOMAIN result.value <=> Supplied(call.custom_data)
        /\ Supplied(call.custom_data) =>
               result.value.channel_data = json_dumps(call.custom_data)

\* C5: trigger fails with the too-many-channels error whenever it is given
\* more than 10 channels; given exactly 10 valid channels it never fails with
\* that error, and with a valid event name, payload and socket id it returns
\* the POST request for /apps/{app_id}/events.
C5_ChannelLimit ==
    (call.op = "trigger" /\ call.channels.kind = "list") =>
        LET items == call.channels.items IN
        /\ Len(items) > TriggerMaxChannels => result = TooManyChannelsError
        /\ Len(items) <= TriggerMaxChannels => result # TooManyChannelsError
        /\ (/\ Len(items) = TriggerMaxChannels
            /\ \A i \in 1..Len(items) : ValidChannel(items[i])
            /\ call.event_name.chars <= EventNameMax
            /\ SerializedBytes(call.data) <= DataMax
            /\ (Supplied(call.socket_id) => ValidSocketId(call.socket_id)))
           => /\ result.kind = "request"
              /\ result.method = "POST"
              /\ result.path = <<"/apps/", app_id, "/events">>
              /\ result.params.channels = items

\* trigger returned a request for exactly 10 channels
C5_Witness ==
    /\ call.op = "trigger"
    /\ call.channels.kind = "list"
    /\ Len(call.channels.items) = TriggerMaxChannels
    /\ result.kind = "request"

\* C6: trigger accepts between 1 and 10 channels: an empty channel list is
\* rejected with an error and no request is produced.
C6_EmptyChannelListRejected ==
    call.op = "trigger" =>
        /\ (call.channels.kind = "list" /\ Len(call.channels.items) = 0)
               => result.kind = "error"
        /\ result.kind = "request"
               => Len(result.params.channels) \in 1..TriggerMaxChannels

\* C7: trigger rejects serialized data of more than 10240 bytes and accepts
\* 10240 bytes, the size being the bytes of the serialized string.
C7_DataLimitInBytes ==
    call.op = "trigger" =>
        /\ SerializedBytes(call.data) > DataMax => result.kind = "error"
        /\ result.kind = "request" => result.params.data.bytes <= DataMax

\* C7, the part the code keeps: the limit is on the characters of the
\* serialized string.
C7_DataLimitInCharacters ==
    call.op = "trigger" =>
        /\ SerializedOnce(call.data).chars > DataMax => result.kind = "error"
        /\ result.kind = "request" => result.params.data.chars <= DataMax

\* C8: validation is fail-fast and complete: in trigger, channel_info,
\* users_info and authenticate an invalid channel name, a supplied socket id
\* without the numeric-pair shape (an empty one included), an event name over
\* 200 characters, an oversized payload or too many channels ends the
\* operation in an error.
C8_EveryViolationIsAnError ==
    /\ call.op = "trigger" =>
           ((\/ \E i \in 1..Len(call.channels.items) : ~ValidChannel(call.channels.items[i])
             \/ (call.channels.kind = "list" /\ Len(call.channels.items) > TriggerMaxChannels)
             \/ (Supplied(call.socket_id) /\ ~ValidSocketId(call.socket_id))
             \/ call.event_name.chars > EventNameMax
             \/ SerializedBytes(call.data) > DataMax)
            => result.kind = "error")
    /\ call.op \in {"channel_info", "users_info"} =>
           (~ValidChannel(call.channel) => result.kind = "error")
    /\ call.op = "authenticate" =>
           ((~ValidChannel(call.channel) \/ ~ValidSocketId(call.socket_id))
            => result.kind = "error")

\* C9: every operation leaves the credentials and the caller's arguments as
\* they were; trigger_batch leaves the data of every event of its batch
\* unchanged.
C9_OperationsArePure ==
    /\ app_id = "4" /\ key = "key" /\ secret = "secret"
    /\ batch = orig

\* C10: after any number of trigger_batch calls on the same batch with
\* already_encoded=False, every event's data in the 'batch' parameter is the
\* original data serialized exactly once (a text is passed through); with
\* already_encoded=True every event's data is passed through as given.
C10_BatchSerializedOnce ==
    (call.op = "trigger_batch" /\ result.kind = "request") =>
        LET sent == result.params.batch IN
        IF call.already_encoded
        THEN sent = call.batch
        ELSE /\ Len(sent) = Len(orig)
             /\ \A i \in 1..Len(sent) :
                    /\ sent[i].data = SerializedOnce(orig[i].data)
                    /\ sent[i].channel = orig[i].channel
                    /\ sent[i].name = orig[i].name

\* a later call on a batch an earlier call has already encoded
C10_Witness ==
    /\ call.op = "trigger_batch"
    /\ ~call.already_encoded
    /\ Len(orig) > 0
    /\ call.batch # orig
    /\ \E i \in 1..Len(orig) : orig[i].data.t # "str"

====
